---- MODULE Spec2Model ----
(***************************************************************************)
(* State-machine model of the Sambo habits tracking bot (src/bot.py).      *)
(*                                                                         *)
(* Strings are sequences of one-character strings, so that str(), int(),   *)
(* str.isdigit(), str.strip(), str.lower(), strftime and the regular       *)
(* expression of the consumption parser are computed rather than assumed.  *)
(* A worksheet is a sequence of rows, row 1 being the header; a row is a   *)
(* sequence of cells; the empty cell is the empty string <<>>.             *)
(***************************************************************************)
EXTENDS Integers, Sequences, FiniteSets, TLC

VARIABLES
    activity,       \* the "Activity" worksheet (self.activity_sheet)
    consumption,    \* the "Consumption" worksheet (self.consumption_sheet)
    language,       \* the "Language" worksheet (self.language_sheet)
    avail,          \* which worksheet handles _init_google_sheets has set
    api_key,        \* self.deepseek_api_key is set
    target,         \* self.user_id (TELEGRAM_USER_ID), NoUser when unset
    now,            \* the Moscow clock: [ord, hour, minute]
    last,           \* what the last handler did (observation of replies)
    sent,           \* history: checkmark recordings asked for so far
    tot,            \* history: sums of the successfully recorded consumption
    nmsg,           \* number of handlers run so far
    pin             \* inputs and results of the pure-function checks

vars == <<activity, consumption, language, avail, api_key, target, now,
          last, sent, tot, nmsg, pin>>

-----------------------------------------------------------------------------
(* Bounds of the model *)

\* handlers (messages and scheduled triggers) run in one behaviour
MaxMsgs == 3
\* handlers run in one behaviour in which the store may fail
MaxFailMsgs == 2
\* failures within one run of the scheduled job
MaxFaults == 1
\* days the clock advances past the first day
MaxTicks == 1
\* length of the texts the parser is checked on
MaxLen == 4
\* days around the first day on which the week utility is checked
MaxSpan == 16
\* midnights that pass while consumption is recorded
MaxDays == 2
\* starts of the process and messages between them
MaxStarts == 4
\* data rows of a stored table handed to the aggregators
MaxRows == 2

-----------------------------------------------------------------------------
(* Strings *)

DIGITS == <<"0", "1", "2", "3", "4", "5", "6", "7", "8", "9">>

\* the characters matched by \d (and accepted by int)
DecimalChars == {DIGITS[i] : i \in 1..10}

\* characters str.isdigit accepts: the decimals and digits such as superscript two
IsDigitChars == DecimalChars \cup {"^2"}

\* the characters matched by \s and removed by str.strip
Whitespace == {" ", "\t"}

\* the check mark U+2713, one character
CHECK == <<"v/">>

Range(s) == {s[i] : i \in 1..Len(s)}

DigitVal(c) == (CHOOSE i \in 1..10 : DIGITS[i] = c) - 1

\* str(n) for a natural number
RECURSIVE Str(_)
Str(n) == IF n < 10 THEN <<DIGITS[n + 1]>>
          ELSE Str(n \div 10) \o <<DIGITS[(n % 10) + 1]>>

\* str.isdigit()
IsDigit(s) == s # <<>> /\ Range(s) \subseteq IsDigitChars

\* int(s) for a string of decimal characters
RECURSIVE ParseInt(_)
ParseInt(s) == IF s = <<>> THEN 0
               ELSE 10 * ParseInt(SubSeq(s, 1, Len(s) - 1)) + DigitVal(s[Len(s)])

\* int(s) raises ValueError
IntRaises(s) == s = <<>> \/ ~(Range(s) \subseteq DecimalChars)

\* str.lower() on one character
LowerChar(c) == CASE c = "X" -> "x"
                  [] c = "Y" -> "y"
                  [] c = "C" -> "c"
                  [] c = "H" -> "h"
                  [] OTHER -> c

Lower(s) == [i \in 1..Len(s) |-> LowerChar(s[i])]

\* length of the longest prefix of s made of characters of S
RECURSIVE PrefixLen(_, _)
PrefixLen(s, S) == IF s = <<>> \/ s[1] \notin S THEN 0
                   ELSE 1 + PrefixLen(Tail(s), S)

Reverse(s) == [i \in 1..Len(s) |-> s[Len(s) + 1 - i]]

\* str.strip()
Strip(s) == LET a == PrefixLen(s, Whitespace)
                b == PrefixLen(Reverse(s), Whitespace)
            IN  IF a = Len(s) THEN <<>> ELSE SubSeq(s, a + 1, Len(s) - b)

\* number of occurrences of c in s: str.count
RECURSIVE Count(_, _)
Count(s, c) == IF s = <<>> THEN 0
               ELSE (IF s[1] = c THEN 1 ELSE 0) + Count(Tail(s), c)

\* n written with at least w digits (the %Y, %m and %d fields)
Pad(n, w) == LET d == Str(n)
             IN  IF Len(d) >= w THEN d ELSE [i \in 1..(w - Len(d)) |-> "0"] \o d

-----------------------------------------------------------------------------
(* The habit catalogues *)

HABITS == [h \in 1..5 |->
    CASE h = 1 -> "Prayer with first water"
      [] h = 2 -> "Qi Gong routine"
      [] h = 3 -> "Freestyling on the ball"
      [] h = 4 -> "20 minute run and stretch"
      [] h = 5 -> "Strengthening and stretching session"]

CONSUMPTION_HABITS == [t \in {"x", "y", "z"} |->
    CASE t = "x" -> "Coffee"
      [] t = "y" -> "Sugary food"
      [] t = "z" -> "Flour-based food"]

LangCodes == {<<"c", "h">>, <<"h", "e">>, <<"t", "a">>}

LANGUAGE_HABITS == [c \in LangCodes |->
    CASE c = <<"c", "h">> -> "Chinese activation"
      [] c = <<"h", "e">> -> "Hebrew cards"
      [] c = <<"t", "a">> -> "Tatar cards"]

-----------------------------------------------------------------------------
(* Time / week utility *)

\* a weekday numbered from Sunday
WeekdayFromSunday(ord) == ord % 7

\* datetime.weekday(): Monday is 0
Weekday(ord) == (ord + 6) % 7

DAYS_IN_MONTH == <<31, 28, 31, 30, 31, 30, 31, 31, 30, 31, 30, 31>>

RECURSIVE DaysBeforeMonth(_)
DaysBeforeMonth(m) == IF m = 1 THEN 0
                      ELSE DaysBeforeMonth(m - 1) + DAYS_IN_MONTH[m - 1]

\* the proleptic Gregorian ordinal as (year, month, day): datetime's _ord2ymd
Ord2Ymd(ord) ==
    LET n0   == ord - 1
        n400 == n0 \div 146097
        r400 == n0 % 146097
        n100 == r400 \div 36524
        r100 == r400 % 36524
        n4   == r100 \div 1461
        r4   == r100 % 1461
        n1   == r4 \div 365
        n    == r4 % 365
        year == n400 * 400 + 1 + n100 * 100 + n4 * 4 + n1
        leap == n1 = 3 /\ (n4 # 24 \/ n100 = 3)
        m0   == (n + 50) \div 32
        p0   == DaysBeforeMonth(m0) + (IF m0 > 2 /\ leap THEN 1 ELSE 0)
        month == IF p0 > n THEN m0 - 1 ELSE m0
        prec == IF p0 > n
                THEN p0 - (DAYS_IN_MONTH[m0 - 1] + (IF m0 - 1 = 2 /\ leap THEN 1 ELSE 0))
                ELSE p0
    IN  IF n1 = 4 \/ n100 = 4 THEN <<year - 1, 12, 31>>
        ELSE <<year, month, n - prec + 1>>

\* date.strftime("%Y-%m-%d")
Strftime(t) == LET ymd == Ord2Ymd(t.ord)
               IN  Pad(ymd[1], 4) \o <<"-">> \o Pad(ymd[2], 2) \o <<"-">> \o Pad(ymd[3], 2)

\* date - timedelta(days=k)
MinusDays(t, k) == [t EXCEPT !.ord = @ - k]

get_week_start(t) ==
    LET days_since_monday == Weekday(t.ord)
        week_start == MinusDays(t, days_since_monday)
    IN  [week_start EXCEPT !.hour = 0, !.minute = 0]

\* a week id that is the day itself, not its Monday
get_week_number_unaligned(t) == Strftime(t)

get_week_number(t) == Strftime(get_week_start(t))

-----------------------------------------------------------------------------
(* Worksheets: the calls made on a gspread worksheet *)

\* a header cell is kept as a one-symbol string
ACTIVITY_HEADERS == << <<"User ID">>, <<"Date">>, <<"Prayer">>, <<"Qi Gong">>,
                       <<"Ball">>, <<"Run/Stretch">>, <<"Strength/Stretch">>,
                       <<"Week Number">>, <<"Goals">> >>

CONSUMPTION_HEADERS == << <<"User ID">>, <<"Date">>, <<"Week Number">>,
                          <<"Coffee (x)">>, <<"Coffee Cost">>, <<"Sugary (y)">>,
                          <<"Sugary Cost">>, <<"Flour (z)">>, <<"Flour Cost">> >>

LANGUAGE_HEADERS == << <<"User ID">>, <<"Date">>, <<"Week Number">>,
                       <<"Chinese (ch)">>, <<"Hebrew (he)">>, <<"Tatar (ta)">> >>

BlankRow(w) == [i \in 1..w |-> <<>>]

\* worksheet.cell(row, col).value; None (the empty string here) for a blank cell
cell(sheet, row, col) ==
    IF row <= Len(sheet) /\ col <= Len(sheet[row]) THEN sheet[row][col] ELSE <<>>

\* worksheet.update_cell(row, col, value); rows up to `row` come to exist
update_cell(sheet, row, col, value) ==
    LET w     == Len(sheet[1])
        grown == sheet \o [i \in 1..(row - Len(sheet)) |-> BlankRow(w)]
    IN  [grown EXCEPT ![row][col] = value]

\* worksheet.append_row(values)
append_row(sheet, values) == Append(sheet, values)

\* worksheet.clear(): no values are left
clear(sheet) == <<>>

\* a row without its trailing blank cells
RECURSIVE TrimRow(_)
TrimRow(row) ==
    IF row = <<>> THEN <<>>
    ELSE IF row[Len(row)] = <<>> THEN TrimRow(SubSeq(row, 1, Len(row) - 1))
    ELSE row

\* worksheet.row_values(row)
row_values(sheet, row) == IF row <= Len(sheet) THEN TrimRow(sheet[row]) ELSE <<>>

\* the first of the row numbers `hits` the scan matches, 0 when there is none
FirstRow(hits) ==
    IF hits = {} THEN 0 ELSE CHOOSE i \in hits : \A j \in hits : i <= j

-----------------------------------------------------------------------------
(* Replies.  A reply is the message template with the values formatted     *)
(* into it; a number is formatted into the text by str().                  *)

Msg(id, name) == [id |-> id, name |-> name, a |-> <<>>, b |-> <<>>, c |-> <<>>, d |-> <<>>]

NoMsg == Msg("", "")

\* consumption confirmation: increment and new daily totals
ConsumedMsg(name, count, cost, new_count, new_cost) ==
    [id |-> "consumed", name |-> name,
     a |-> Str(count),
     b |-> IF cost > 0 THEN Str(cost) ELSE <<>>,
     c |-> Str(new_count),
     d |-> IF new_cost > 0 THEN Str(new_cost) ELSE <<>>]

-----------------------------------------------------------------------------
(* Sheet 1: activity habits.  `fail` names the store call that raises      *)
(* ("none" when the store works): "scan", "append", "read" or "write".     *)

\* a failure that is swallowed and reported as success
store_failure_reported_ok(text, sheet, row_num, calls) ==
    [ok |-> TRUE, msg |-> Msg(text, ""), sheet |-> sheet, row_num |-> row_num,
     calls |-> calls]

\* the result of a recorder whose store call raised or whose row lookup
\* returned None: the failure reply, the sheet as the calls made left it
store_failure(text, sheet, row_num, calls) ==
    [ok |-> FALSE, msg |-> Msg(text, ""), sheet |-> sheet, row_num |-> row_num,
     calls |-> calls]

\* a lookup that never finds the day's row and appends one for every message
get_activity_row_always_append(sheet, user_id, t, fail) ==
    LET new_row == <<Str(user_id), Strftime(t), <<>>, <<>>, <<>>, <<>>, <<>>,
                     get_week_number(t), <<>> >>
    IN  [row_num |-> Len(sheet) + 1, sheet |-> append_row(sheet, new_row),
         calls |-> <<"get_all_values", "append_row">>]

\* a lookup that numbers the row it appends len(all_rows), not len(all_rows) + 1
activity_row_misnumbered(sheet, user_str, today_str, week_number, fail) ==
    LET found == FirstRow({i \in 2..Len(sheet) :
                             /\ Len(sheet[i]) > 1
                             /\ sheet[i][1] = user_str /\ sheet[i][2] = today_str})
        new_row == <<user_str, today_str, <<>>, <<>>, <<>>, <<>>, <<>>, week_number, <<>> >>
    IN  IF found # 0
        THEN [row_num |-> found, sheet |-> sheet, calls |-> <<"get_all_values">>]
        ELSE [row_num |-> Len(sheet), sheet |-> append_row(sheet, new_row),
              calls |-> <<"get_all_values", "append_row">>]

\* the scan for the row of (user, day) and the append when there is none;
\* `calls` lists the store calls made, the raising one being the last
activity_row(sheet, user_str, today_str, week_number, fail) ==
    LET found == FirstRow({i \in 2..Len(sheet) :
                             /\ Len(sheet[i]) > 1
                             /\ sheet[i][1] = user_str /\ sheet[i][2] = today_str})
        new_row == <<user_str, today_str, <<>>, <<>>, <<>>, <<>>, <<>>, week_number, <<>> >>
    IN  IF fail = "scan"
        THEN [row_num |-> 0, sheet |-> sheet, calls |-> <<"get_all_values">>]
        ELSE IF found # 0
        THEN [row_num |-> found, sheet |-> sheet, calls |-> <<"get_all_values">>]
        ELSE IF fail = "append"
        THEN [row_num |-> 0, sheet |-> sheet, calls |-> <<"get_all_values", "append_row">>]
        ELSE [row_num |-> Len(sheet) + 1, sheet |-> append_row(sheet, new_row),
              calls |-> <<"get_all_values", "append_row">>]

get_activity_row(sheet, user_id, t, fail) ==
    activity_row(sheet, Str(user_id), Strftime(t), get_week_number(t), fail)

\* a column mapping that is off by one
HabitColShifted(habit_id) == habit_id + 3

HabitCol(habit_id) == habit_id + 2

\* the duplicate test and the write, on the row `r` the lookup returned
habit_at(r, col, habit_id, fail) ==
    LET current_value == cell(r.sheet, r.row_num, col)
    IN  IF r.row_num = 0
        THEN store_failure("Failed to record habit", r.sheet, 0, r.calls)
        ELSE IF fail = "read"
        THEN store_failure("Error recording habit", r.sheet, r.row_num,
                           r.calls \o <<"cell">>)
        ELSE IF current_value # <<>> /\ Strip(current_value) # <<>>
        THEN [ok |-> FALSE, msg |-> Msg("already recorded today", HABITS[habit_id]),
              sheet |-> r.sheet, row_num |-> r.row_num, calls |-> r.calls \o <<"cell">>]
        ELSE IF fail = "write"
        THEN store_failure("Error recording habit", r.sheet, r.row_num,
                           r.calls \o <<"cell", "update_cell">>)
        ELSE [ok |-> TRUE, msg |-> Msg("recorded!", HABITS[habit_id]),
              sheet |-> update_cell(r.sheet, r.row_num, col, CHECK),
              row_num |-> r.row_num, calls |-> r.calls \o <<"cell", "update_cell">>]

record_habit(sheet, ok_sheet, user_id, habit_id, t, fail) ==
    IF ~ok_sheet
    THEN [ok |-> FALSE, msg |-> Msg("Activity sheet not initialized", ""), sheet |-> sheet,
          row_num |-> 0, calls |-> <<>>]
    ELSE IF habit_id \notin DOMAIN HABITS
    THEN [ok |-> FALSE, msg |-> Msg("Invalid habit number. Use 1-5.", ""), sheet |-> sheet,
          row_num |-> 0, calls |-> <<>>]
    ELSE habit_at(get_activity_row(sheet, user_id, t, fail), HabitCol(habit_id),
                  habit_id, fail)

-----------------------------------------------------------------------------
(* Sheet structure: the header check made when the worksheets are opened.   *)
(* `fail` names the store call that raises: "row_values", "clear",          *)
(* "append", or "none".                                                     *)

\* a check that rewrites the table whatever its header is
ensure_structure_always(sheet, expected_headers, fail) ==
    IF fail \in {"row_values", "clear"} THEN sheet
    ELSE IF fail = "append" THEN clear(sheet)
    ELSE append_row(clear(sheet), expected_headers)

\* a check that compares the number of titles only
ensure_structure_by_width(sheet, expected_headers, fail) ==
    IF fail = "row_values" THEN sheet
    ELSE IF Len(row_values(sheet, 1)) = Len(expected_headers) THEN sheet
    ELSE IF fail = "clear" THEN sheet
    ELSE IF fail = "append" THEN clear(sheet)
    ELSE append_row(clear(sheet), expected_headers)

\* the body shared by the three _ensure_*_sheet_structure methods; a raising
\* call is caught and logged inside the method
ensure_structure(sheet, expected_headers, fail) ==
    IF fail = "row_values" THEN sheet
    ELSE IF row_values(sheet, 1) = expected_headers THEN sheet
    ELSE IF fail = "clear" THEN sheet
    ELSE IF fail = "append" THEN clear(sheet)
    ELSE append_row(clear(sheet), expected_headers)

ensure_activity_sheet_structure(sheet, fail) ==
    ensure_structure(sheet, ACTIVITY_HEADERS, fail)

ensure_consumption_sheet_structure(sheet, fail) ==
    ensure_structure(sheet, CONSUMPTION_HEADERS, fail)

ensure_language_sheet_structure(sheet, fail) ==
    ensure_structure(sheet, LANGUAGE_HEADERS, fail)

-----------------------------------------------------------------------------
(* Sheet 2: consumption habits.  `fail` may also be "read2" (the cost cell *)
(* read) or "write2" (the cost cell write).                                *)

\* the scan for the row of (user, day, week) and the append when there is none
consumption_row(sheet, ok_sheet, user_str, today_str, week_number, fail) ==
    LET found == FirstRow({i \in 2..Len(sheet) :
                             /\ Len(sheet[i]) > 2
                             /\ sheet[i][1] = user_str /\ sheet[i][2] = today_str
                             /\ sheet[i][3] = week_number})
        new_row == <<user_str, today_str, week_number, <<>>, <<>>, <<>>, <<>>, <<>>, <<>> >>
    IN  IF ~ok_sheet THEN [row_num |-> 0, sheet |-> sheet, calls |-> <<>>]
        ELSE IF fail = "scan"
        THEN [row_num |-> 0, sheet |-> sheet, calls |-> <<"get_all_values">>]
        ELSE IF found # 0
        THEN [row_num |-> found, sheet |-> sheet, calls |-> <<"get_all_values">>]
        ELSE IF fail = "append"
        THEN [row_num |-> 0, sheet |-> sheet, calls |-> <<"get_all_values", "append_row">>]
        ELSE [row_num |-> Len(sheet) + 1, sheet |-> append_row(sheet, new_row),
              calls |-> <<"get_all_values", "append_row">>]

get_consumption_row(sheet, ok_sheet, user_id, week_number, t, fail) ==
    consumption_row(sheet, ok_sheet, Str(user_id), Strftime(t), week_number, fail)

NoParse == [match |-> FALSE, habit_type |-> "", count |-> 0, cost |-> 0]

\* re.match(r'^([xyz]+)(?:\s+(\d+))?$', text): the two groups, or no match
ReMatch(text) ==
    LET k       == PrefixLen(text, {"x", "y", "z"})
        rest    == SubSeq(text, k + 1, Len(text))
        w       == PrefixLen(rest, Whitespace)
        digits  == SubSeq(rest, w + 1, Len(rest))
        letters == SubSeq(text, 1, k)
    IN  IF k = 0 THEN [match |-> FALSE, letters |-> <<>>, cost |-> <<>>]
        ELSE IF rest = <<>> THEN [match |-> TRUE, letters |-> letters, cost |-> <<>>]
        ELSE IF w >= 1 /\ digits # <<>> /\ Range(digits) \subseteq DecimalChars
        THEN [match |-> TRUE, letters |-> letters, cost |-> digits]
        ELSE [match |-> FALSE, letters |-> <<>>, cost |-> <<>>]

\* a parser that counts every letter of the token
parse_counting_all_letters(raw) ==
    LET m == ReMatch(Lower(Strip(raw)))
        habit_type == IF "x" \in Range(m.letters) THEN "x"
                      ELSE IF "y" \in Range(m.letters) THEN "y" ELSE "z"
    IN  IF ~m.match THEN NoParse
        ELSE [match |-> TRUE, habit_type |-> habit_type, count |-> Len(m.letters),
              cost |-> IF m.cost # <<>> THEN ParseInt(m.cost) ELSE 0]

parse_consumption_input(raw) ==
    LET text == Lower(Strip(raw))
        m    == ReMatch(text)
        habit_type == IF "x" \in Range(m.letters) THEN "x"
                      ELSE IF "y" \in Range(m.letters) THEN "y"
                      ELSE IF "z" \in Range(m.letters) THEN "z"
                      ELSE ""
    IN  IF ~m.match \/ habit_type = "" THEN NoParse
        ELSE [match |-> TRUE, habit_type |-> habit_type,
              count |-> Count(m.letters, habit_type),
              cost |-> IF m.cost # <<>> THEN ParseInt(m.cost) ELSE 0]

CountCol(habit_type) == IF habit_type = "x" THEN 4 ELSE IF habit_type = "y" THEN 6 ELSE 8

\* a cost column that is the next type's count column
CostColNext(habit_type) == CountCol(habit_type) + 2

CostCol(habit_type) == CountCol(habit_type) + 1

\* int(s) if s.isdigit() else 0, for a cell the bot wrote
CellInt(s) == IF IsDigit(s) /\ ~IntRaises(s) THEN ParseInt(s) ELSE 0

\* cell(...).value or "0"
OrZero(v) == IF v = <<>> THEN <<"0">> ELSE v

\* a write of the cost cell whatever the cost
written_with_cost(cost, counted, costed) == costed

\* the sheet after the writes: the cost cell is written only for a cost > 0
written(cost, counted, costed) == IF cost > 0 THEN costed ELSE counted

\* the reads, the sums and the writes, on the row `r` the lookup returned
consumption_at(r, result, count_col, cost_col, fail) ==
    LET current_count_str == OrZero(cell(r.sheet, r.row_num, count_col))
        current_cost_str  == OrZero(cell(r.sheet, r.row_num, cost_col))
        new_count   == CellInt(current_count_str) + result.count
        new_cost    == CellInt(current_cost_str) + result.cost
        counted     == update_cell(r.sheet, r.row_num, count_col, Str(new_count))
        costed      == update_cell(counted, r.row_num, cost_col, Str(new_cost))
        error       == "Error recording consumption"
    IN  IF r.row_num = 0
        THEN store_failure("Failed to create consumption record", r.sheet, 0, r.calls)
        ELSE IF fail = "read"
        THEN store_failure(error, r.sheet, r.row_num, r.calls \o <<"cell">>)
        ELSE IF fail = "read2"
        THEN store_failure(error, r.sheet, r.row_num, r.calls \o <<"cell", "cell">>)
        ELSE IF fail = "write"
        THEN store_failure(error, r.sheet, r.row_num,
                           r.calls \o <<"cell", "cell", "update_cell">>)
        ELSE IF result.cost > 0 /\ fail = "write2"
        THEN store_failure(error, counted, r.row_num,
                           r.calls \o <<"cell", "cell", "update_cell", "update_cell">>)
        ELSE [ok |-> TRUE,
              msg |-> ConsumedMsg(CONSUMPTION_HABITS[result.habit_type], result.count,
                                  result.cost, new_count, new_cost),
              sheet |-> written(result.cost, counted, costed),
              row_num |-> r.row_num,
              calls |-> r.calls \o (IF result.cost > 0
                                    THEN <<"cell", "cell", "update_cell", "update_cell">>
                                    ELSE <<"cell", "cell", "update_cell">>)]

\* the recorder once the text is parsed
consumption_parsed(sheet, ok_sheet, user_id, result, t, fail) ==
    IF ~result.match
    THEN [ok |-> FALSE, msg |-> Msg("Invalid format.", ""), sheet |-> sheet,
          row_num |-> 0, calls |-> <<>>]
    ELSE consumption_at(get_consumption_row(sheet, ok_sheet, user_id,
                                            get_week_number(t), t, fail),
                        result, CountCol(result.habit_type), CostCol(result.habit_type),
                        fail)

record_consumption(sheet, ok_sheet, user_id, text, t, fail) ==
    IF ~ok_sheet
    THEN [ok |-> FALSE, msg |-> Msg("Consumption sheet not initialized", ""), sheet |-> sheet,
          row_num |-> 0, calls |-> <<>>]
    ELSE consumption_parsed(sheet, ok_sheet, user_id, parse_consumption_input(text), t, fail)

-----------------------------------------------------------------------------
(* Sheet 3: language learning habits *)

\* the scan for the row of (user, day, week) and the append when there is none
language_row(sheet, ok_sheet, user_str, today_str, week_number, fail) ==
    LET found == FirstRow({i \in 2..Len(sheet) :
                             /\ Len(sheet[i]) > 2
                             /\ sheet[i][1] = user_str /\ sheet[i][2] = today_str
                             /\ sheet[i][3] = week_number})
        new_row == <<user_str, today_str, week_number, <<>>, <<>>, <<>> >>
    IN  IF ~ok_sheet THEN [row_num |-> 0, sheet |-> sheet, calls |-> <<>>]
        ELSE IF fail = "scan"
        THEN [row_num |-> 0, sheet |-> sheet, calls |-> <<"get_all_values">>]
        ELSE IF found # 0
        THEN [row_num |-> found, sheet |-> sheet, calls |-> <<"get_all_values">>]
        ELSE IF fail = "append"
        THEN [row_num |-> 0, sheet |-> sheet, calls |-> <<"get_all_values", "append_row">>]
        ELSE [row_num |-> Len(sheet) + 1, sheet |-> append_row(sheet, new_row),
              calls |-> <<"get_all_values", "append_row">>]

get_language_row(sheet, ok_sheet, user_id, week_number, t, fail) ==
    language_row(sheet, ok_sheet, Str(user_id), Strftime(t), week_number, fail)

\* a column mapping that sends two codes to one column
LangColShared(lang_type) == IF lang_type = <<"t", "a">> THEN 6 ELSE 4

LangCol(lang_type) == IF lang_type = <<"c", "h">> THEN 4
                      ELSE IF lang_type = <<"h", "e">> THEN 5 ELSE 6

\* the duplicate test and the write, on the row `r` the lookup returned
language_at(r, col, text, fail) ==
    LET current_value == cell(r.sheet, r.row_num, col)
        error         == "Error recording language activity"
    IN  IF r.row_num = 0
        THEN store_failure("Failed to create language record", r.sheet, 0, r.calls)
        ELSE IF fail = "read"
        THEN store_failure(error, r.sheet, r.row_num, r.calls \o <<"cell">>)
        ELSE IF current_value # <<>>
        THEN [ok |-> FALSE, msg |-> Msg("already recorded today", LANGUAGE_HABITS[text]),
              sheet |-> r.sheet, row_num |-> r.row_num, calls |-> r.calls \o <<"cell">>]
        ELSE IF fail = "write"
        THEN store_failure(error, r.sheet, r.row_num, r.calls \o <<"cell", "update_cell">>)
        ELSE [ok |-> TRUE, msg |-> Msg("recorded!", LANGUAGE_HABITS[text]),
              sheet |-> update_cell(r.sheet, r.row_num, col, CHECK),
              row_num |-> r.row_num, calls |-> r.calls \o <<"cell", "update_cell">>]

\* the recorder once its text is trimmed and lower-cased
language_coded(sheet, ok_sheet, user_id, text, t, fail) ==
    IF ~ok_sheet
    THEN [ok |-> FALSE, msg |-> Msg("Language sheet not initialized", ""), sheet |-> sheet,
          row_num |-> 0, calls |-> <<>>]
    ELSE IF text \notin LangCodes
    THEN [ok |-> FALSE, msg |-> Msg("Invalid language code.", ""), sheet |-> sheet,
          row_num |-> 0, calls |-> <<>>]
    ELSE language_at(get_language_row(sheet, ok_sheet, user_id, get_week_number(t), t, fail),
                     LangCol(text), text, fail)

record_language(sheet, ok_sheet, user_id, raw, t, fail) ==
    language_coded(sheet, ok_sheet, user_id, Lower(Strip(raw)), t, fail)

-----------------------------------------------------------------------------
(* Aggregators.  `failed` says that the scan of the sheet raises.  A       *)
(* result of None is the record with none = TRUE.                          *)

ZeroHabits == [h \in 1..5 |-> 0]

NoStats == [none |-> TRUE, week |-> <<>>, habits |-> ZeroHabits, days_tracked |-> 0]

\* statistics that count every non-empty habit cell
ActivityStatsNonEmpty(sheet, user_id, week_number) ==
    LET rows == {i \in 2..Len(sheet) :
                    Len(sheet[i]) > 7 /\ sheet[i][1] = Str(user_id)
                    /\ sheet[i][8] = week_number}
    IN  [none |-> FALSE, week |-> week_number,
         habits |-> [h \in 1..5 |-> Cardinality({i \in rows : sheet[i][h + 2] # <<>>})],
         days_tracked |-> Cardinality(rows)]

\* statistics that count the rows of every user
ActivityStatsOfAnyUser(sheet, user_id, week_number) ==
    LET rows == {i \in 2..Len(sheet) : Len(sheet[i]) > 7 /\ sheet[i][8] = week_number}
    IN  [none |-> FALSE, week |-> week_number,
         habits |-> [h \in 1..5 |-> Cardinality({i \in rows : sheet[i][h + 2] = CHECK})],
         days_tracked |-> Cardinality(rows)]

\* the loop over all_rows[1:] of _get_weekly_stats and _get_previous_weeks_stats
ActivityStats(sheet, user_id, week_number) ==
    LET rows == {i \in 2..Len(sheet) :
                    Len(sheet[i]) > 7 /\ sheet[i][1] = Str(user_id)
                    /\ sheet[i][8] = week_number}
    IN  [none |-> FALSE, week |-> week_number,
         habits |-> [h \in 1..5 |-> Cardinality({i \in rows : sheet[i][h + 2] = CHECK})],
         days_tracked |-> Cardinality(rows)]

get_weekly_stats(sheet, ok_sheet, user_id, t, failed) ==
    IF ~ok_sheet \/ failed THEN NoStats
    ELSE ActivityStats(sheet, user_id, get_week_number(t))

WEEKS_BACK == 4

\* a loop over range(0, weeks_back): the current week and one week too few
get_previous_weeks_stats_from_zero(sheet, ok_sheet, user_id, t, failed) ==
    LET wk(i) == get_week_number(MinusDays(t, 7 * i))
    IN  IF ~ok_sheet \/ failed THEN [none |-> TRUE, weeks |-> <<>>]
        ELSE [none |-> FALSE,
              weeks |-> [w \in {wk(i) : i \in 0..(WEEKS_BACK - 1)} |->
                            ActivityStats(sheet, user_id, w)]]

\* the dictionary week id -> statistics, None being the record with none = TRUE
get_previous_weeks_stats(sheet, ok_sheet, user_id, t, failed) ==
    LET wk(i) == get_week_number(MinusDays(t, 7 * i))
    IN  IF ~ok_sheet \/ failed THEN [none |-> TRUE, weeks |-> <<>>]
        ELSE [none |-> FALSE,
              weeks |-> [w \in {wk(i) : i \in 1..WEEKS_BACK} |->
                            ActivityStats(sheet, user_id, w)]]

RECURSIVE SumCells(_, _, _)
SumCells(sheet, rows, col) ==
    IF rows = {} THEN 0
    ELSE LET i == CHOOSE r \in rows : TRUE
             v == sheet[i][col]
         IN  (IF v # <<>> THEN CellInt(v) ELSE 0) + SumCells(sheet, rows \ {i}, col)

NoConsumption == [none |-> TRUE, count |-> [t \in {"x", "y", "z"} |-> 0],
                  cost |-> [t \in {"x", "y", "z"} |-> 0]]

\* sums over the rows of the user whatever their week
get_consumption_stats_all_weeks(sheet, ok_sheet, user_id, t, failed) ==
    LET rows == {i \in 2..Len(sheet) : Len(sheet[i]) > 8 /\ sheet[i][1] = Str(user_id)}
    IN  IF ~ok_sheet \/ failed THEN NoConsumption
        ELSE [none |-> FALSE,
              count |-> [c \in {"x", "y", "z"} |-> SumCells(sheet, rows, CountCol(c))],
              cost  |-> [c \in {"x", "y", "z"} |-> SumCells(sheet, rows, CostCol(c))]]

\* int() raises on a cell that isdigit() accepts; the except branch returns None
CellRaises(sheet, rows) ==
    \E i \in rows : \E col \in 4..9 : IsDigit(sheet[i][col]) /\ IntRaises(sheet[i][col])

get_consumption_stats(sheet, ok_sheet, user_id, t, failed) ==
    LET week_number == get_week_number(t)
        rows == {i \in 2..Len(sheet) :
                    Len(sheet[i]) > 8 /\ sheet[i][1] = Str(user_id)
                    /\ sheet[i][3] = week_number}
    IN  IF ~ok_sheet \/ failed \/ CellRaises(sheet, rows) THEN NoConsumption
        ELSE [none |-> FALSE,
              count |-> [c \in {"x", "y", "z"} |-> SumCells(sheet, rows, CountCol(c))],
              cost  |-> [c \in {"x", "y", "z"} |-> SumCells(sheet, rows, CostCol(c))]]

NoLanguage == [none |-> TRUE, totals |-> [c \in LangCodes |-> 0]]

get_weekly_language_summary(sheet, ok_sheet, user_id, t, failed) ==
    LET week_number == get_week_number(t)
        rows == {i \in 2..Len(sheet) :
                    Len(sheet[i]) > 5 /\ sheet[i][1] = Str(user_id)
                    /\ sheet[i][3] = week_number}
    IN  IF ~ok_sheet \/ failed THEN NoLanguage
        ELSE [none |-> FALSE,
              totals |-> [c \in LangCodes |->
                             Cardinality({i \in rows : sheet[i][LangCol(c)] = CHECK})]]

-----------------------------------------------------------------------------
(* Feedback generator.  A report is the template it was built from and the *)
(* numbers formatted into it.  A result with raised = TRUE is an exception *)
(* leaving the function.                                                   *)

NoReport == [kind |-> "none", week |-> <<>>, habits |-> ZeroHabits,
             count |-> NoConsumption.count, cost |-> NoConsumption.cost,
             totals |-> NoLanguage.totals]

\* subscripting None raises TypeError
generate_basic_feedback(current_stats, previous_stats, consumption_stats, language_stats) ==
    IF current_stats.none \/ consumption_stats.none \/ language_stats.none
    THEN [raised |-> TRUE, text |-> NoReport]
    ELSE [raised |-> FALSE,
          text |-> [kind |-> "basic", week |-> current_stats.week,
                    habits |-> current_stats.habits,
                    count |-> consumption_stats.count, cost |-> consumption_stats.cost,
                    totals |-> language_stats.totals]]

\* the outcomes of the request to the text-generation service
ApiOutcomes == {"200", "status", "raise", "malformed"}

generate_feedback(key, current_stats, previous_stats, consumption_stats, language_stats, api) ==
    LET basic == generate_basic_feedback(current_stats, previous_stats,
                                         consumption_stats, language_stats)
        prompt_raises == current_stats.none \/ consumption_stats.none \/ language_stats.none
    IN  IF ~key THEN basic
        ELSE IF prompt_raises THEN basic
        ELSE IF api = "200" THEN [raised |-> FALSE, text |-> [NoReport EXCEPT !.kind = "ai"]]
        ELSE basic

-----------------------------------------------------------------------------
(* Dispatch layer *)

\* the chat users (update.effective_user.id)
Users == {7, 42}

\* which branch of handle_message a normalised text takes: a recorder, "none"
\* for the help reply, or "raise" when int(text) raises out of the handler
Route(text) ==
    IF text \in LangCodes THEN "language"
    ELSE IF text # <<>> /\ text[1] \in {"x", "y", "z"} THEN "consumption"
    ELSE IF IsDigit(text)
    THEN (IF IntRaises(text) THEN "raise"
          ELSE IF 1 <= ParseInt(text) /\ ParseInt(text) <= 5 THEN "activity"
          ELSE "none")
    ELSE "none"

HelpMsg == Msg("Please send:", "")

\* the recorder's result for a routed text; the sheet is the recorder's own
Recorded(route, user_id, text, fail) ==
    CASE route = "language" ->
            record_language(language, avail.language, user_id, text, now, fail)
      [] route = "consumption" ->
            record_consumption(consumption, avail.consumption, user_id, text, now, fail)
      [] route = "activity" ->
            record_habit(activity, avail.activity, user_id, ParseInt(text), now, fail)
      [] OTHER -> [ok |-> FALSE, msg |-> HelpMsg, sheet |-> <<>>, row_num |-> 0,
                   calls |-> <<>>]

\* the key of a checkmark cell in the history: the habit number or language code
MarkKey(route, text) == IF route = "activity" THEN Str(ParseInt(text)) ELSE text

NoGen == [called |-> FALSE, api |-> "", key |-> FALSE, current |-> NoStats,
          consumption |-> NoConsumption, language |-> NoLanguage,
          result |-> [raised |-> FALSE, text |-> NoReport]]

NoLast == [kind |-> "none", user |-> 0, day |-> 0, text |-> <<>>, recorder |-> "none",
           ok |-> FALSE, msg |-> NoMsg, replies |-> <<>>, raised |-> FALSE,
           first |-> FALSE, parsed |-> NoParse, fails |-> {}, gen |-> NoGen,
           fail |-> "none", row_num |-> 0, calls |-> <<>>]

\* the reply to the chat and the history of what was handled
reply_text(user_id, text, route, res, parsed, fail) ==
    LET key   == <<user_id, now.ord, MarkKey(route, text)>>
        ckey  == <<user_id, now.ord, parsed.habit_type>>
        old   == IF ckey \in DOMAIN tot THEN tot[ckey] ELSE [count |-> 0, cost |-> 0]
    IN  /\ activity' = IF route = "activity" THEN res.sheet ELSE activity
        /\ consumption' = IF route = "consumption" THEN res.sheet ELSE consumption
        /\ language' = IF route = "language" THEN res.sheet ELSE language
        /\ last' = [NoLast EXCEPT
                      !.kind = "message", !.user = user_id, !.day = now.ord, !.text = text,
                      !.recorder = IF route = "raise" THEN "none" ELSE route,
                      !.ok = res.ok,
                      !.msg = IF route = "raise" THEN NoMsg ELSE res.msg,
                      !.replies = IF route = "raise" THEN <<>>
                                  ELSE <<[chat |-> user_id, body |-> res.msg]>>,
                      !.raised = (route = "raise"),
                      !.first = (route \in {"activity", "language"} /\ key \notin sent),
                      !.parsed = parsed, !.fail = fail,
                      !.row_num = res.row_num, !.calls = res.calls]
        /\ sent' = IF route \in {"activity", "language"} THEN sent \cup {key} ELSE sent
        /\ tot' = IF route = "consumption" /\ res.ok
                  THEN [k \in DOMAIN tot \cup {ckey} |->
                           IF k = ckey THEN [count |-> old.count + parsed.count,
                                             cost |-> old.cost + parsed.cost]
                           ELSE tot[k]]
                  ELSE tot

\* the branch taken and the recorder called for the normalised text
handle_routed(user_id, text, route, fail) ==
    reply_text(user_id, text, route, Recorded(route, user_id, text, fail),
               IF route = "consumption" THEN parse_consumption_input(text) ELSE NoParse,
               fail)

handle_message(user_id, raw, fail) ==
    handle_routed(user_id, Lower(Strip(raw)), Route(Lower(Strip(raw))), fail)

\* the messages sent for the aggregates and the report, and what the run saw
deliver(user_id, current_stats, consumption_stats, language_stats, feedback, fails, api) ==
    LET seen == [NoGen EXCEPT !.api = api, !.key = api_key, !.current = current_stats,
                              !.consumption = consumption_stats,
                              !.language = language_stats]
        gen == [seen EXCEPT !.called = TRUE, !.result = feedback]
        job == [NoLast EXCEPT !.kind = "job", !.day = now.ord, !.fails = fails,
                              !.user = user_id]
    IN  IF current_stats.none
        THEN [job EXCEPT !.gen = seen,
                         !.replies = IF "send" \in fails THEN <<>>
                                     ELSE <<[chat |-> user_id,
                                             body |-> Msg("No activity recorded this week.", "")]>>]
        ELSE IF feedback.raised
        THEN [job EXCEPT !.gen = gen]
        ELSE [job EXCEPT !.gen = gen, !.ok = ("send" \notin fails),
                         !.replies = IF "send" \in fails THEN <<>>
                                     ELSE <<[chat |-> user_id, body |-> feedback.text]>>]

\* the report generated from the four aggregates and its delivery
feedback_from(user_id, current_stats, previous_stats, consumption_stats, language_stats, fails, api) ==
    deliver(user_id, current_stats, consumption_stats, language_stats,
            generate_feedback(api_key, current_stats, previous_stats,
                              consumption_stats, language_stats, api),
            fails, api)

\* the four aggregates of the user
feedback_for_user(user_id, fails, api) ==
    feedback_from(user_id,
                  get_weekly_stats(activity, avail.activity, user_id, now,
                                   "stats" \in fails),
                  get_previous_weeks_stats(activity, avail.activity, user_id, now,
                                           "previous" \in fails),
                  get_consumption_stats(consumption, avail.consumption, user_id, now,
                                        "consumption" \in fails),
                  get_weekly_language_summary(language, avail.language, user_id, now,
                                              "language" \in fails),
                  fails, api)

\* the scheduled job for the configured user(s) `users`.  `fails` names what
\* fails in this run: the scans of the aggregators ("stats", "previous",
\* "consumption", "language") and the delivery ("send"); `api` is the outcome
\* of the text-generation request.
weekly_feedback_for(users, fails, api) ==
    IF users = {}
    THEN [NoLast EXCEPT !.kind = "job", !.day = now.ord, !.fails = fails]
    ELSE feedback_for_user(CHOOSE u \in users : TRUE, fails, api)

\* a job that reports to every user when no target is configured
send_weekly_feedback_to_all(fails, api) ==
    weekly_feedback_for(IF target = {} THEN Users ELSE target, fails, api)

send_weekly_feedback(fails, api) == weekly_feedback_for(target, fails, api)

-----------------------------------------------------------------------------
(* Inputs *)

\* the day of the first message: Sunday 2025-12-28
FirstDays == {739613}

\* message texts as the chat delivers them
RawTexts == { <<"1">>, <<" ", "0", "5">>, <<"6">>, <<"^2">>,
              <<"C", "h">>, <<"h", "e">>,
              <<"x">>, <<"x", " ", "5">>, <<"X", "y", "x", " ", "1", "0">>,
              <<"x", "a">> }

FailSteps == {"scan", "append", "read", "read2", "write", "write2"}

\* what can fail in one run of the scheduled job
JobFails == {S \in SUBSET {"stats", "previous", "consumption", "language", "send"} :
                Cardinality(S) <= MaxFaults}

\* one text for each recorder: what the second user sends, and what is sent
\* in the runs in which the store fails
FewTexts == { <<"1">>, <<"C", "h">>, <<"x", " ", "5">> }

TextsOf(user_id) == IF user_id = 7 THEN RawTexts ELSE FewTexts

\* the store calls a recorder makes, any of which may raise
FailsOf(raw) ==
    LET route == Route(Lower(Strip(raw)))
    IN  IF route = "consumption" THEN FailSteps
        ELSE IF route \in {"activity", "language"}
        THEN {"scan", "append", "read", "write"}
        ELSE {}

\* the request is made only with a key
ApiOf == IF api_key THEN ApiOutcomes ELSE {"unused"}

-----------------------------------------------------------------------------
(* The state machine *)

HeadersOnly ==
    /\ activity = <<ACTIVITY_HEADERS>>
    /\ consumption = <<CONSUMPTION_HEADERS>>
    /\ language = <<LANGUAGE_HEADERS>>

InitCommon ==
    /\ HeadersOnly
    /\ now \in {[ord |-> d, hour |-> 12, minute |-> 0] : d \in FirstDays}
    /\ last = NoLast
    /\ sent = {}
    /\ tot = << >>
    /\ nmsg = 0
    /\ pin = [kind |-> "none"]

\* construction succeeded: the three worksheets are open
Init ==
    /\ InitCommon
    /\ avail = [activity |-> TRUE, consumption |-> TRUE, language |-> TRUE]
    /\ api_key = FALSE
    /\ target = {7}

HandleMessage(user_id, raw, fail) ==
    /\ handle_message(user_id, raw, fail)
    /\ nmsg' = nmsg + 1
    /\ UNCHANGED <<avail, api_key, target, now, pin>>

WeeklyFeedback(fails, api) ==
    /\ last' = send_weekly_feedback(fails, api)
    /\ nmsg' = nmsg + 1
    /\ UNCHANGED <<activity, consumption, language, avail, api_key, target, now,
                   sent, tot, pin>>

\* midnight passes
Tick ==
    /\ \E d \in FirstDays : now.ord < d + MaxTicks
    /\ now' = [now EXCEPT !.ord = @ + 1]
    /\ UNCHANGED <<activity, consumption, language, avail, api_key, target,
                   last, sent, tot, nmsg, pin>>

\* messages are handled one at a time and the store answers every call
Next ==
    \/ \E u \in Users : \E raw \in TextsOf(u) :
            nmsg < MaxMsgs /\ HandleMessage(u, raw, "none")
    \/ Tick

Spec == Init /\ [][Next]_vars

\* construction may have stopped before the Consumption worksheet was open
InitFail ==
    /\ InitCommon
    /\ avail \in {[activity |-> TRUE, consumption |-> c, language |-> c] : c \in BOOLEAN}
    /\ api_key \in BOOLEAN
    /\ target \in {{}, {7}}
    /\ (target = {} => ~api_key /\ avail.consumption)

\* any store call, the text-generation request and the delivery may fail
NextFail ==
    \/ \E u \in Users, raw \in FewTexts : \E fail \in FailsOf(raw) \cup {"none"} :
            nmsg < MaxFailMsgs /\ HandleMessage(u, raw, fail)
    \/ \E fails \in JobFails, api \in ApiOf :
            nmsg < MaxFailMsgs /\ WeeklyFeedback(fails, api)
    \/ Tick

SpecFail == InitFail /\ [][NextFail]_vars

-----------------------------------------------------------------------------
(* The input parser on its own: every text up to MaxLen characters, as     *)
(* handle_message hands it to _record_consumption                          *)

ParseAlphabet == {"x", "y", "z", "X", "a", " ", "1", "5"}

TextsUpTo(n) == UNION {[1..k -> ParseAlphabet] : k \in 0..n}

PinParse(raw) == [kind |-> "parse", text |-> Lower(Strip(raw)), done |-> FALSE,
                  res |-> NoParse]

ParseInit ==
    /\ HeadersOnly
    /\ avail = [activity |-> TRUE, consumption |-> TRUE, language |-> TRUE]
    /\ api_key = FALSE
    /\ target = {7}
    /\ now \in {[ord |-> d, hour |-> 12, minute |-> 0] : d \in FirstDays}
    /\ last = NoLast
    /\ sent = {}
    /\ tot = << >>
    /\ nmsg = 0
    /\ pin \in {PinParse(raw) : raw \in TextsUpTo(MaxLen)}

ParseStep ==
    /\ pin.kind = "parse" /\ ~pin.done
    /\ pin' = [pin EXCEPT !.done = TRUE, !.res = parse_consumption_input(pin.text)]
    /\ UNCHANGED <<activity, consumption, language, avail, api_key, target, now,
                   last, sent, tot, nmsg>>

SpecParse == ParseInit /\ [][ParseStep]_vars

-----------------------------------------------------------------------------
(* The week utility on its own: two instants of the days around the first  *)

ClockTimes == {<<0, 0>>, <<12, 0>>, <<23, 59>>}

Instants == {[ord |-> d + k, hour |-> hm[1], minute |-> hm[2]] :
                d \in FirstDays, k \in 0..MaxSpan, hm \in ClockTimes}

WeekInit ==
    /\ HeadersOnly
    /\ avail = [activity |-> TRUE, consumption |-> TRUE, language |-> TRUE]
    /\ api_key = FALSE
    /\ target = {7}
    /\ now \in {[ord |-> d, hour |-> 12, minute |-> 0] : d \in FirstDays}
    /\ last = NoLast
    /\ sent = {}
    /\ tot = << >>
    /\ nmsg = 0
    /\ pin \in {[kind |-> "week", t1 |-> a, t2 |-> b, done |-> FALSE,
                 w1 |-> <<>>, w2 |-> <<>>] : a, b \in Instants}

WeekStep ==
    /\ pin.kind = "week" /\ ~pin.done
    /\ pin' = [pin EXCEPT !.done = TRUE, !.w1 = get_week_number(pin.t1),
                          !.w2 = get_week_number(pin.t2)]
    /\ UNCHANGED <<activity, consumption, language, avail, api_key, target, now,
                   last, sent, tot, nmsg>>

SpecWeek == WeekInit /\ [][WeekStep]_vars

-----------------------------------------------------------------------------
(* Restarts: the process is started on a new spreadsheet and started again  *)
(* on the spreadsheet it left, which its owner can edit in between          *)

Tables == {"activity", "consumption", "language"}

\* the store calls of the structure check that may raise, one per start
StartFaults == {[table |-> "none", call |-> "none"]}
                 \cup {[table |-> t, call |-> c] : t \in Tables, c \in {"clear", "append"}}

FaultOn(fault, table) == IF fault.table = table THEN fault.call ELSE "none"

\* the worksheets that are open after _init_google_sheets: all three, or
\* those opened before a call raised
Opened == {[activity |-> TRUE, consumption |-> TRUE, language |-> TRUE],
           [activity |-> TRUE, consumption |-> FALSE, language |-> FALSE],
           [activity |-> FALSE, consumption |-> FALSE, language |-> FALSE]}

\* a new spreadsheet and no process yet
InitStart ==
    /\ activity = <<>> /\ consumption = <<>> /\ language = <<>>
    /\ avail = [activity |-> FALSE, consumption |-> FALSE, language |-> FALSE]
    /\ api_key = FALSE
    /\ target = {7}
    /\ now \in {[ord |-> d, hour |-> 12, minute |-> 0] : d \in FirstDays}
    /\ last = NoLast
    /\ sent = {}
    /\ tot = << >>
    /\ nmsg = 0
    /\ pin = [kind |-> "none"]

\* __init__ of a new process: the worksheets are opened and, when all three
\* are, each table's structure is checked
InitGoogleSheets(opened, fault) ==
    /\ avail' = opened
    /\ IF opened.language
       THEN /\ activity' = ensure_activity_sheet_structure(activity, FaultOn(fault, "activity"))
            /\ consumption' = ensure_consumption_sheet_structure(consumption,
                                                                 FaultOn(fault, "consumption"))
            /\ language' = ensure_language_sheet_structure(language, FaultOn(fault, "language"))
       ELSE UNCHANGED <<activity, consumption, language>>
    /\ last' = [NoLast EXCEPT !.kind = "start",
                              !.fail = IF opened.language THEN fault.call ELSE "open"]
    /\ nmsg' = nmsg + 1
    /\ UNCHANGED <<api_key, target, now, sent, tot, pin>>

\* the owner of the spreadsheet renames the last title of a header row
RenameTitle(sheet) == [sheet EXCEPT ![1][Len(sheet[1])] = <<"Notes">>]

StoredTable(table) ==
    CASE table = "activity" -> activity
      [] table = "consumption" -> consumption
      [] table = "language" -> language

ExpectedHeaders(table) ==
    CASE table = "activity" -> ACTIVITY_HEADERS
      [] table = "consumption" -> CONSUMPTION_HEADERS
      [] table = "language" -> LANGUAGE_HEADERS

EditHeader(table) ==
    /\ row_values(StoredTable(table), 1) = ExpectedHeaders(table)
    /\ activity' = IF table = "activity" THEN RenameTitle(activity) ELSE activity
    /\ consumption' = IF table = "consumption" THEN RenameTitle(consumption) ELSE consumption
    /\ language' = IF table = "language" THEN RenameTitle(language) ELSE language
    /\ UNCHANGED <<avail, api_key, target, now, last, sent, tot, nmsg, pin>>

NextStart ==
    \/ \E opened \in Opened, fault \in StartFaults :
            nmsg < MaxStarts /\ InitGoogleSheets(opened, fault)
    \/ \E raw \in FewTexts :
            nmsg < MaxStarts /\ HandleMessage(7, raw, "none")
    \/ nmsg < MaxStarts /\ WeeklyFeedback({}, "unused")
    \/ \E table \in Tables : EditHeader(table)

SpecStart == InitStart /\ [][NextStart]_vars

-----------------------------------------------------------------------------
(* Consumption over the days of two weeks: recordings from Sunday on, and   *)
(* the weekly sums read after them                                          *)

SumTexts == { <<"x", " ", "5">>, <<"x", "x">>, <<"y", " ", "1", "0">> }

SumTextsOf(user_id) == IF user_id = 7 THEN SumTexts ELSE { <<"x", " ", "5">> }

\* midnight passes, up to MaxDays times
NextDay ==
    /\ \E d \in FirstDays : now.ord < d + MaxDays
    /\ now' = [now EXCEPT !.ord = @ + 1]
    /\ UNCHANGED <<activity, consumption, language, avail, api_key, target,
                   last, sent, tot, nmsg, pin>>

\* _get_consumption_stats(user_id), as the weekly job calls it
ConsumptionStats(user_id) ==
    /\ pin' = [kind |-> "sums", user |-> user_id, day |-> now.ord, at |-> nmsg,
               stats |-> get_consumption_stats(consumption, avail.consumption, user_id,
                                               now, FALSE)]
    /\ UNCHANGED <<activity, consumption, language, avail, api_key, target, now,
                   last, sent, tot, nmsg>>

NextSums ==
    \/ \E u \in Users : \E raw \in SumTextsOf(u) :
            nmsg < MaxMsgs /\ HandleMessage(u, raw, "none")
    \/ \E u \in Users : ConsumptionStats(u)
    \/ NextDay

SpecSums == Init /\ [][NextSums]_vars

-----------------------------------------------------------------------------
(* Two _record_consumption operations of one user on one day, each taking   *)
(* its store calls one at a time with the other's calls in between.  The    *)
(* position and the local variables of each operation are kept in `pin`.    *)

Procs == {1, 2}

Other(p) == 3 - p

RaceTexts == { <<"x", " ", "5">>, <<"x", "x">> }

\* the Consumption table the two operations start on: no row of the day, a
\* row of the day, a row of the day below another user's
RaceStores ==
    LET noon == [ord |-> CHOOSE d \in FirstDays : TRUE, hour |-> 12, minute |-> 0]
        day  == Strftime(noon)
        wk   == get_week_number(noon)
    IN  { <<CONSUMPTION_HEADERS>>,
          <<CONSUMPTION_HEADERS,
            <<Str(7), day, wk, <<"1">>, <<>>, <<>>, <<>>, <<>>, <<>> >> >>,
          <<CONSUMPTION_HEADERS,
            <<Str(42), day, wk, <<"1">>, <<"5">>, <<>>, <<>>, <<>>, <<>> >>,
            <<Str(7), day, wk, <<"2">>, <<"5">>, <<>>, <<>>, <<>>, <<>> >> >> }

\* current_count + count
new_count_replaced(current_count, count) == count

new_count(current_count, count) == current_count + count

NoProc == [pc |-> "start", text |-> <<>>, result |-> NoParse, row_num |-> 0,
           current_count |-> 0, current_cost |-> 0, ok |-> FALSE]

RaceInit ==
    /\ activity = <<ACTIVITY_HEADERS>>
    /\ consumption \in RaceStores
    /\ language = <<LANGUAGE_HEADERS>>
    /\ avail = [activity |-> TRUE, consumption |-> TRUE, language |-> TRUE]
    /\ api_key = FALSE
    /\ target = {7}
    /\ now \in {[ord |-> d, hour |-> 12, minute |-> 0] : d \in FirstDays}
    /\ last = NoLast
    /\ sent = {}
    /\ tot = << >>
    /\ nmsg = 0
    /\ \E t1 \in RaceTexts, t2 \in RaceTexts :
          pin = [kind |-> "race", user |-> 7, stored |-> consumption,
                 overlapped |-> FALSE, both_read |-> FALSE,
                 procs |-> [p \in Procs |->
                              [NoProc EXCEPT !.text = IF p = 1 THEN t1 ELSE t2,
                                             !.result = parse_consumption_input(
                                                            IF p = 1 THEN t1 ELSE t2)]]]

\* the other operation has started and has not returned
Midway(p) == pin.procs[Other(p)].pc \notin {"start", "done"}

\* the other operation has read the count cell and has not written it yet
ReadNotWritten(p) == pin.procs[Other(p)].pc \in {"read_cost", "write_count"}

RaceUnchanged == UNCHANGED <<activity, language, avail, api_key, target, now,
                             last, sent, tot, nmsg>>

\* the step of operation p: its record becomes `proc`
Moves(p, proc, reads_count) ==
    pin' = [pin EXCEPT !.procs[p] = proc,
                       !.overlapped = @ \/ Midway(p),
                       !.both_read = @ \/ (reads_count /\ ReadNotWritten(p))]

\* _get_consumption_row: get_all_values() and the scan of what it returned
RaceScan(p) ==
    LET r     == pin.procs[p]
        found == FirstRow({i \in 2..Len(consumption) :
                             /\ Len(consumption[i]) > 2
                             /\ consumption[i][1] = Str(pin.user)
                             /\ consumption[i][2] = Strftime(now)
                             /\ consumption[i][3] = get_week_number(now)})
    IN  /\ r.pc = "start"
        /\ Moves(p, IF found # 0
                    THEN [r EXCEPT !.pc = "read_count", !.row_num = found]
                    ELSE [r EXCEPT !.pc = "append", !.row_num = Len(consumption) + 1],
                 FALSE)
        /\ UNCHANGED consumption
        /\ RaceUnchanged

\* _get_consumption_row: append_row(new_row); the row number is the one
\* computed from the rows the scan saw
RaceAppend(p) ==
    LET r == pin.procs[p]
        new_row == <<Str(pin.user), Strftime(now), get_week_number(now),
                     <<>>, <<>>, <<>>, <<>>, <<>>, <<>> >>
    IN  /\ r.pc = "append"
        /\ consumption' = append_row(consumption, new_row)
        /\ Moves(p, [r EXCEPT !.pc = "read_count"], FALSE)
        /\ RaceUnchanged

\* current_count_str = cell(row_num, count_col).value or "0"
RaceReadCount(p) ==
    LET r == pin.procs[p]
    IN  /\ r.pc = "read_count"
        /\ Moves(p, [r EXCEPT !.pc = "read_cost",
                              !.current_count =
                                  CellInt(OrZero(cell(consumption, r.row_num,
                                                      CountCol(r.result.habit_type))))],
                 TRUE)
        /\ UNCHANGED consumption
        /\ RaceUnchanged

\* current_cost_str = cell(row_num, cost_col).value or "0"
RaceReadCost(p) ==
    LET r == pin.procs[p]
    IN  /\ r.pc = "read_cost"
        /\ Moves(p, [r EXCEPT !.pc = "write_count",
                              !.current_cost =
                                  CellInt(OrZero(cell(consumption, r.row_num,
                                                      CostCol(r.result.habit_type))))],
                 FALSE)
        /\ UNCHANGED consumption
        /\ RaceUnchanged

\* update_cell(row_num, count_col, str(new_count))
RaceWriteCount(p) ==
    LET r == pin.procs[p]
    IN  /\ r.pc = "write_count"
        /\ consumption' = update_cell(consumption, r.row_num, CountCol(r.result.habit_type),
                                      Str(new_count(r.current_count, r.result.count)))
        /\ Moves(p, IF r.result.cost > 0 THEN [r EXCEPT !.pc = "write_cost"]
                    ELSE [r EXCEPT !.pc = "done", !.ok = TRUE],
                 FALSE)
        /\ RaceUnchanged

\* if cost > 0: update_cell(row_num, cost_col, str(new_cost)); return True
RaceWriteCost(p) ==
    LET r == pin.procs[p]
    IN  /\ r.pc = "write_cost"
        /\ consumption' = update_cell(consumption, r.row_num, CostCol(r.result.habit_type),
                                      Str(r.current_cost + r.result.cost))
        /\ Moves(p, [r EXCEPT !.pc = "done", !.ok = TRUE], FALSE)
        /\ RaceUnchanged

NextRace ==
    \/ \E p \in Procs : RaceScan(p)
    \/ \E p \in Procs : RaceAppend(p)
    \/ \E p \in Procs : RaceReadCount(p)
    \/ \E p \in Procs : RaceReadCost(p)
    \/ \E p \in Procs : RaceWriteCount(p)
    \/ \E p \in Procs : RaceWriteCost(p)

SpecRace == RaceInit /\ [][NextRace]_vars

-----------------------------------------------------------------------------
(* The Activity aggregators on their own, over stored tables of up to       *)
(* MaxRows data rows                                                        *)

\* the Mondays the stored rows belong to: Monday 2025-12-22 and the Mondays
\* one, four and five weeks before it
StoredWeeks == {Strftime([ord |-> d - 6 - 7 * k, hour |-> 0, minute |-> 0]) :
                   d \in FirstDays, k \in {0, 1, 4, 5}}

\* the habit cells of a stored row: check marks, blanks, and a cell that
\* holds something else
StoredMarks == { <<<<>>, <<>>, <<>>, <<>>, <<>>>>,
                 <<CHECK, <<>>, <<>>, CHECK, <<>>>>,
                 <<<<>>, CHECK, CHECK, <<>>, CHECK>>,
                 <<<<"x">>, CHECK, <<>>, <<>>, <<" ">>>> }

StoredRows == {<<Str(u), w>> \o marks \o <<w, <<>>>> :
                  u \in Users, w \in StoredWeeks, marks \in StoredMarks}

StoredTables == UNION {[1..k -> StoredRows] : k \in 0..MaxRows}

StatsInit ==
    /\ activity \in {<<ACTIVITY_HEADERS>> \o rows : rows \in StoredTables}
    /\ consumption = <<CONSUMPTION_HEADERS>>
    /\ language = <<LANGUAGE_HEADERS>>
    /\ avail = [activity |-> TRUE, consumption |-> TRUE, language |-> TRUE]
    /\ api_key = FALSE
    /\ target = {7}
    /\ now \in {[ord |-> d, hour |-> 12, minute |-> 0] : d \in FirstDays}
              \cup {[ord |-> d + 1, hour |-> 0, minute |-> 0] : d \in FirstDays}
    /\ last = NoLast
    /\ sent = {}
    /\ tot = << >>
    /\ nmsg = 0
    /\ pin = [kind |-> "stats", user |-> 7, done |-> FALSE, current |-> NoStats,
              previous |-> [none |-> TRUE, weeks |-> <<>>]]

StatsStep ==
    /\ pin.kind = "stats" /\ ~pin.done
    /\ pin' = [pin EXCEPT
                 !.done = TRUE,
                 !.current = get_weekly_stats(activity, avail.activity, pin.user, now, FALSE),
                 !.previous = get_previous_weeks_stats(activity, avail.activity, pin.user,
                                                       now, FALSE)]
    /\ UNCHANGED <<activity, consumption, language, avail, api_key, target, now,
                   last, sent, tot, nmsg>>

SpecStats == StatsInit /\ [][StatsStep]_vars

-----------------------------------------------------------------------------
(* Properties: helpers that read the tables the way a person reads them    *)

DateOf(ord) == Strftime([ord |-> ord, hour |-> 0, minute |-> 0])

\* the data rows of a sheet that belong to a user and a day
RowsOf(sheet, user_id, ord) ==
    {i \in 2..Len(sheet) : sheet[i][1] = Str(user_id) /\ sheet[i][2] = DateOf(ord)}

\* the column under a given header
ColumnOf(headers, title) == CHOOSE c \in 1..Len(headers) : headers[c] = <<title>>

RECURSIVE Pow10(_)
Pow10(k) == IF k = 0 THEN 1 ELSE 10 * Pow10(k - 1)

RECURSIVE DecimalSum(_, _)
DecimalSum(s, i) ==
    IF i > Len(s) THEN 0
    ELSE DigitVal(s[i]) * Pow10(Len(s) - i) + DecimalSum(s, i + 1)

\* the number a cell shows, a blank cell showing nothing being 0
NumberIn(c) == IF c = <<>> THEN 0 ELSE DecimalSum(c, 1)

ActivityTitle(h) ==
    CASE h = 1 -> "Prayer" [] h = 2 -> "Qi Gong" [] h = 3 -> "Ball"
      [] h = 4 -> "Run/Stretch" [] h = 5 -> "Strength/Stretch"

CountTitle(c) == CASE c = "x" -> "Coffee (x)" [] c = "y" -> "Sugary (y)" [] c = "z" -> "Flour (z)"

CostTitle(c) == CASE c = "x" -> "Coffee Cost" [] c = "y" -> "Sugary Cost" [] c = "z" -> "Flour Cost"

\* the count and the cost a consumption row shows for a type
CountShown(row, c) == NumberIn(row[ColumnOf(CONSUMPTION_HEADERS, CountTitle(c))])

CostShown(row, c) == NumberIn(row[ColumnOf(CONSUMPTION_HEADERS, CostTitle(c))])

Days == {d + k : d \in FirstDays, k \in 0..MaxTicks}

TablesUnchanged ==
    /\ activity' = activity
    /\ consumption' = consumption
    /\ language' = language

-----------------------------------------------------------------------------
\* C1: with a working store, the first recordActivity call of a user for a
\* habit id on a day succeeds with a confirmation naming the habit, and every
\* later call with that id on that day is rejected with the
\* "<habit name> already recorded today" result, whatever other ids were
\* recorded in between.
C1_FirstSucceedsLaterDuplicate ==
    (last.kind = "message" /\ last.recorder = "activity") =>
        LET h == NumberIn(last.text)
        IN  IF last.first
            THEN last.ok /\ last.msg = Msg("recorded!", HABITS[h])
            ELSE ~last.ok /\ last.msg = Msg("already recorded today", HABITS[h])

\* a repeated id is rejected on a day on which another id was recorded too
C1_Witness ==
    /\ last.kind = "message" /\ last.recorder = "activity"
    /\ ~last.first /\ ~last.ok
    /\ \E k \in 1..5 : k # NumberIn(last.text) /\ <<last.user, last.day, Str(k)>> \in sent

\* C2: the user's single Activity row of a day holds a checkmark in exactly
\* the columns of the distinct habit ids sent that day and every other habit
\* column is blank
C2_RowShowsIdsSent ==
    \A u \in Users, d \in Days :
        LET ids  == {h \in 1..5 : <<u, d, Str(h)>> \in sent}
            rows == RowsOf(activity, u, d)
        IN  IF ids = {} THEN rows = {}
            ELSE /\ Cardinality(rows) = 1
                 /\ \A i \in rows, h \in 1..5 :
                        activity[i][ColumnOf(ACTIVITY_HEADERS, ActivityTitle(h))]
                            = (IF h \in ids THEN CHECK ELSE <<>>)

\* C2: a rejected duplicate changes no cell
C2_DuplicateChangesNothing ==
    (last'.kind = "message" /\ last'.recorder = "activity" /\ ~last'.ok)
        => TablesUnchanged

\* C2: after any sequence of same-day activity messages from one user the
\* user's single Activity row for that day holds a checkmark in exactly the
\* columns of the distinct habit ids that were sent, no other habit column is
\* non-empty, and a rejected duplicate changes no cell.
C2_ExactCheckmarks == [](C2_RowShowsIdsSent) /\ [][C2_DuplicateChangesNothing]_vars

\* two ids were sent and one of them again: two checkmarks in the row
C2_Witness ==
    /\ last.kind = "message" /\ last.recorder = "activity" /\ ~last.ok
    /\ Cardinality({h \in 1..5 : <<last.user, last.day, Str(h)>> \in sent}) = 2
    /\ \E i \in RowsOf(activity, last.user, last.day) :
          Cardinality({c \in 3..7 : activity[i][c] = CHECK}) = 2

\* C3: for one user and one consumption type, after the successful
\* recordConsumption calls of a day the day's row holds a count equal to the
\* sum of the parsed counts and a cost equal to the sum of the parsed costs,
\* and the totals reported in the reply equal the stored values.
C3_ConsumptionAccumulates ==
    /\ \A key \in DOMAIN tot :
          LET rows == RowsOf(consumption, key[1], key[2])
          IN  /\ Cardinality(rows) = 1
              /\ \A i \in rows :
                    /\ CountShown(consumption[i], key[3]) = tot[key].count
                    /\ CostShown(consumption[i], key[3]) = tot[key].cost
    /\ (last.kind = "message" /\ last.recorder = "consumption" /\ last.ok) =>
          \A i \in RowsOf(consumption, last.user, last.day) :
             /\ NumberIn(last.msg.c) = CountShown(consumption[i], last.parsed.habit_type)
             /\ NumberIn(last.msg.d) = CostShown(consumption[i], last.parsed.habit_type)

\* "x 5" and then "Xyx 10" on one day: count 3, cost 15
C3_Witness ==
    /\ last.kind = "message" /\ last.recorder = "consumption" /\ last.ok
    /\ <<last.user, last.day, "x">> \in DOMAIN tot
    /\ tot[<<last.user, last.day, "x">>] = [count |-> 3, cost |-> 15]
    /\ \E i \in RowsOf(consumption, last.user, last.day) :
          consumption[i][4] = <<"3">> /\ consumption[i][5] = <<"1", "5">>

-----------------------------------------------------------------------------
(* The consumption grammar as the specification words it *)

XYZ == {"x", "y", "z"}

\* t is letters of {x,y,z}, up to position k, then nothing or whitespace up
\* to position w and a decimal integer after it
TokenSplit(t, k, w) ==
    /\ k >= 1 /\ \A i \in 1..k : t[i] \in XYZ
    /\ \/ k = Len(t) /\ w = k
       \/ /\ w > k /\ w < Len(t)
          /\ \A i \in (k + 1)..w : t[i] \in Whitespace
          /\ \A i \in (w + 1)..Len(t) : t[i] \in DecimalChars

IsToken(t) == \E k \in 1..Len(t), w \in 1..Len(t) : TokenSplit(t, k, w)

TokenType(t) == IF "x" \in Range(t) THEN "x" ELSE IF "y" \in Range(t) THEN "y" ELSE "z"

TokenCost(t) ==
    LET kw == CHOOSE p \in (1..Len(t)) \X (1..Len(t)) : TokenSplit(t, p[1], p[2])
    IN  NumberIn(SubSeq(t, kw[2] + 1, Len(t)))

\* C4: for every token of one or more letters of {x,y,z}, optionally followed
\* by whitespace and a decimal integer, the parser returns the type (x if any
\* x occurs, else y if any y occurs, else z), the number of occurrences of
\* that one letter, and the trailing integer or 0; every other string yields
\* no match.
C4_ParserFollowsGrammar ==
    (pin.kind = "parse" /\ pin.done) =>
        IF IsToken(pin.text)
        THEN /\ pin.res.match
             /\ pin.res.habit_type = TokenType(pin.text)
             /\ pin.res.count = Cardinality({i \in 1..Len(pin.text) :
                                                pin.text[i] = TokenType(pin.text)})
             /\ pin.res.cost = TokenCost(pin.text)
        ELSE ~pin.res.match

\* "yx 5": type x although y comes first, one x counted, cost 5
C4_Witness ==
    /\ pin.kind = "parse" /\ pin.done
    /\ pin.text = <<"y", "x", " ", "5">>
    /\ pin.res = [match |-> TRUE, habit_type |-> "x", count |-> 1, cost |-> 5]

\* the dates of the Mondays of the checked days, from the calendar
KnownMondays == { <<"2", "0", "2", "5", "-", "1", "2", "-", "2", "9">>,
                  <<"2", "0", "2", "6", "-", "0", "1", "-", "0", "5">>,
                  <<"2", "0", "2", "6", "-", "0", "1", "-", "1", "2">> }

IsMondayMidnight(t) == Strftime(t) \in KnownMondays /\ t.hour = 0 /\ t.minute = 0

\* minutes from instant a to instant b
Elapsed(a, b) == (b.ord - a.ord) * 1440 + (b.hour - a.hour) * 60 + (b.minute - a.minute)

\* C5: weekId gives the same value for every instant from a Monday 00:00
\* through the following Sunday 23:59 (Moscow time), and a different value for
\* any instant on or after the next Monday 00:00.
C5_WeekIdStableWithinWeek ==
    (pin.kind = "week" /\ pin.done /\ IsMondayMidnight(pin.t1)
     /\ Elapsed(pin.t1, pin.t2) >= 0) =>
        ((pin.w1 = pin.w2) <=> (Elapsed(pin.t1, pin.t2) < 7 * 1440))

\* Monday 2025-12-29 00:00 and Sunday 2026-01-04 23:59, across the new year
C5_Witness ==
    /\ pin.kind = "week" /\ pin.done
    /\ IsMondayMidnight(pin.t1)
    /\ Elapsed(pin.t1, pin.t2) = 7 * 1440 - 1
    /\ pin.w1 = pin.w2
    /\ pin.w1 = <<"2", "0", "2", "5", "-", "1", "2", "-", "2", "9">>

-----------------------------------------------------------------------------
(* The scheduled job *)

WeekColumn == ColumnOf(ACTIVITY_HEADERS, "Week Number")

\* the user has no Activity row in the week of the day the job ran
NoRowsThisWeek(user_id) ==
    ~\E i \in 2..Len(activity) :
        /\ activity[i][1] = Str(user_id)
        /\ activity[i][WeekColumn] = get_week_number([ord |-> last.day, hour |-> 0, minute |-> 0])

AllZero(stats) == stats.habits = [h \in 1..5 |-> 0] /\ stats.days_tracked = 0

\* C6 as claimed: weeklyStats for a user who has no rows in the requested
\* week returns a statistics value with every habit count 0 and
\* days_tracked = 0, and never a missing (None) result.
C6_NeverNoneForEmptyWeek ==
    (last.kind = "job" /\ target # {} /\ NoRowsThisWeek(last.user)) =>
        (~last.gen.current.none /\ AllZero(last.gen.current))

\* C6 as amended: for a user who has no rows in the requested week,
\* weeklyStats returns all-zero counts and days_tracked = 0 whenever the
\* Activity sheet is open and its scan succeeds, and returns None (without
\* raising) when the sheet is not open or the scan raises.
C6_ZeroUnlessScanFails ==
    (last.kind = "job" /\ target # {} /\ NoRowsThisWeek(last.user)) =>
        IF avail.activity /\ "stats" \notin last.fails
        THEN ~last.gen.current.none /\ AllZero(last.gen.current)
        ELSE last.gen.current.none

\* statistics of a user without rows this week while the sheet has rows
C6_Witness ==
    /\ last.kind = "job" /\ target # {} /\ NoRowsThisWeek(last.user)
    /\ Len(activity) > 1
    /\ "stats" \notin last.fails
    /\ ~last.gen.current.none /\ AllZero(last.gen.current)

\* C7 as claimed: whenever the text-generation key is absent, the call
\* returns a non-success status, or the call raises, generate returns the
\* deterministic template filled with the aggregates it was given, for every
\* value the aggregators can hand it (a missing consumption or language
\* aggregate included), so the scheduled job always has a report to send.
C7_FallbackNeverFails ==
    (last.kind = "job" /\ last.gen.called
     /\ (~last.gen.key \/ last.gen.api \in {"status", "raise"})) =>
        /\ ~last.gen.result.raised
        /\ last.gen.result.text.kind = "basic"
        /\ last.gen.result.text.week = last.gen.current.week
        /\ last.gen.result.text.habits = last.gen.current.habits
        /\ last.gen.result.text.count = last.gen.consumption.count
        /\ last.gen.result.text.cost = last.gen.consumption.cost
        /\ last.gen.result.text.totals = last.gen.language.totals
        /\ ("send" \notin last.fails => Len(last.replies) = 1)

\* the users that appear in the tables
TableUsers ==
    {u \in Users :
        \/ \E i \in 2..Len(activity) : activity[i][1] = Str(u)
        \/ \E i \in 2..Len(consumption) : consumption[i][1] = Str(u)
        \/ \E i \in 2..Len(language) : language[i][1] = Str(u)}

Delivered(u) == \E k \in 1..Len(last.replies) : last.replies[k].chat = u

JobFailed == last.fails # {} \/ (last.gen.called /\ last.gen.result.raised)

-----------------------------------------------------------------------------
(* Language recorder and dispatch *)

LanguageTitle(code) ==
    CASE code = <<"c", "h">> -> "Chinese (ch)"
      [] code = <<"h", "e">> -> "Hebrew (he)"
      [] code = <<"t", "a">> -> "Tatar (ta)"

C8_FirstWritesLaterDuplicate ==
    (last.kind = "message" /\ last.recorder = "language") =>
        IF last.first
        THEN /\ last.ok /\ last.msg = Msg("recorded!", LANGUAGE_HABITS[last.text])
             /\ \E i \in RowsOf(language, last.user, last.day) :
                   language[i][ColumnOf(LANGUAGE_HEADERS, LanguageTitle(last.text))] = CHECK
        ELSE ~last.ok /\ last.msg = Msg("already recorded today", LANGUAGE_HABITS[last.text])

C8_DuplicateChangesNothing ==
    (last'.kind = "message" /\ last'.recorder = "language" /\ ~last'.ok)
        => TablesUnchanged

\* C8: for every user and every language code, on one calendar day the first
\* recordLanguage call with that code succeeds and writes the checkmark, and
\* every later call with the same code that day fails as a duplicate without
\* changing any cell, whatever other codes were recorded in between.
C8_LanguageFirstWriteWins ==
    [](C8_FirstWritesLaterDuplicate) /\ [][C8_DuplicateChangesNothing]_vars

\* a repeated code is rejected on a day on which another code was recorded too
C8_Witness ==
    /\ last.kind = "message" /\ last.recorder = "language"
    /\ ~last.first /\ ~last.ok
    /\ \E c \in LangCodes : c # last.text /\ <<last.user, last.day, c>> \in sent

IsDecimal(t) == t # <<>> /\ Range(t) \subseteq DecimalChars

\* the parser's classification of a text
Classified(t) ==
    IF t \in LangCodes THEN "language"
    ELSE IF IsToken(t) THEN "consumption"
    ELSE IF IsDecimal(t) /\ NumberIn(t) \in 1..5 THEN "activity"
    ELSE "none"

C9_RoutedByClass ==
    last.kind = "message" =>
        /\ last.recorder = Classified(last.text)
        /\ Len(last.replies) = 1 /\ last.replies[1].chat = last.user

C9_UnrecognizedChangesNothing ==
    (last'.kind = "message" /\ Classified(last'.text) = "none") => TablesUnchanged

\* C9 as claimed: every inbound text message is routed to at most one
\* recorder, chosen by the parser's classification, and produces exactly one
\* reply to the same chat; unrecognized text invokes no recorder and changes
\* no table.
C9_RoutedByParser == [](C9_RoutedByClass) /\ [][C9_UnrecognizedChangesNothing]_vars

-----------------------------------------------------------------------------
(* Week ids of the rows *)

\* the Mondays of the calendar around the days of the model
CalendarMondays == KnownMondays \cup { <<"2", "0", "2", "5", "-", "1", "2", "-", "2", "2">> }

\* the date of the Monday on or before day d, read off the calendar
MondayOf(d) == CHOOSE w \in CalendarMondays : \E k \in 0..6 : w = DateOf(d - k)

\* the three tables with the column of their week id
WeekTables ==
    { [rows |-> activity, week |-> ColumnOf(ACTIVITY_HEADERS, "Week Number")],
      [rows |-> consumption, week |-> ColumnOf(CONSUMPTION_HEADERS, "Week Number")],
      [rows |-> language, week |-> ColumnOf(LANGUAGE_HEADERS, "Week Number")] }

\* C12: in every reachable state every row written by the bot, in any of the
\* three tables, carries the week id that is the date of the Monday on or
\* before the row's date, so any two rows with the same date (in the same or
\* in different tables) carry the same week id.
C12_WeekIdIsMondayOfRowDate ==
    /\ \A T \in WeekTables : \A i \in 2..Len(T.rows) :
          \E d \in Days : /\ T.rows[i][2] = DateOf(d)
                          /\ T.rows[i][T.week] = MondayOf(d)
    /\ \A T, U \in WeekTables : \A i \in 2..Len(T.rows), j \in 2..Len(U.rows) :
          T.rows[i][2] = U.rows[j][2] => T.rows[i][T.week] = U.rows[j][U.week]

\* rows of one day in two tables, and a row of the next week
C12_Witness ==
    /\ Len(activity) > 1 /\ Len(consumption) > 1
    /\ \E i \in 2..Len(activity), j \in 2..Len(consumption) :
          /\ activity[i][2] = consumption[j][2]
          /\ activity[i][8] # activity[i][2]
    /\ \E i, j \in 2..Len(activity) : activity[i][8] # activity[j][8]

-----------------------------------------------------------------------------
(* What one consumption message writes *)

\* the cell (r, c) of the Consumption table before the message; a row the
\* message appends starts with its key cells and blank count and cost cells
CellBefore(r, c) ==
    IF r <= Len(consumption) THEN consumption[r][c]
    ELSE IF c <= 3 THEN consumption'[r][c] ELSE <<>>

C13_Step ==
    (nmsg' # nmsg /\ last'.kind = "message" /\ last'.recorder = "consumption") =>
        IF last'.ok
        THEN LET count_col == ColumnOf(CONSUMPTION_HEADERS, CountTitle(last'.parsed.habit_type))
                 cost_col  == ColumnOf(CONSUMPTION_HEADERS, CostTitle(last'.parsed.habit_type))
             IN  /\ activity' = activity /\ language' = language
                 /\ \E r \in RowsOf(consumption', last'.user, last'.day) :
                       /\ Len(consumption') = IF r <= Len(consumption) THEN Len(consumption)
                                              ELSE Len(consumption) + 1
                       /\ \A i \in 1..Len(consumption) :
                             i # r => consumption'[i] = consumption[i]
                       /\ consumption'[r][count_col] # CellBefore(r, count_col)
                       /\ NumberIn(consumption'[r][count_col])
                             = NumberIn(CellBefore(r, count_col)) + last'.parsed.count
                       /\ IF last'.parsed.cost > 0
                          THEN NumberIn(consumption'[r][cost_col])
                                  = NumberIn(CellBefore(r, cost_col)) + last'.parsed.cost
                          ELSE consumption'[r][cost_col] = CellBefore(r, cost_col)
                       /\ \A c \in 1..Len(CONSUMPTION_HEADERS) :
                             c \notin {count_col, cost_col}
                                => consumption'[r][c] = CellBefore(r, c)
        ELSE TablesUnchanged

\* C13: recordConsumption always writes the count cell, and writes the cost
\* cell only when the parsed cost is greater than 0; a zero-cost entry leaves
\* the row's existing cost cell unchanged, and no call changes the count or
\* cost cells of the other two consumption types or of any other row.
C13_WritesCountAndPositiveCostOnly == [][C13_Step]_vars

\* a zero-cost entry recorded on a row that already shows a cost, while
\* another user's row exists
C13_Witness ==
    /\ last.kind = "message" /\ last.recorder = "consumption" /\ last.ok
    /\ last.parsed.cost = 0
    /\ \E r \in RowsOf(consumption, last.user, last.day) :
          CostShown(consumption[r], last.parsed.habit_type) > 0
    /\ Len(consumption) > 2

-----------------------------------------------------------------------------
(* The row a message works on *)

\* the table of the recorder that handled the last message
TableOf(recorder) ==
    CASE recorder = "activity" -> activity
      [] recorder = "consumption" -> consumption
      [] recorder = "language" -> language
      [] OTHER -> <<>>

OneRowPerKey(sheet) ==
    \A i, j \in 2..Len(sheet) :
        (sheet[i][1] = sheet[j][1] /\ sheet[i][2] = sheet[j][2]) => i = j

\* the row number find-or-create returned addresses the row of the key
C20_RowAddressed ==
    /\ OneRowPerKey(activity) /\ OneRowPerKey(consumption) /\ OneRowPerKey(language)
    /\ (last.kind = "message" /\ last.row_num # 0) =>
          LET sheet == TableOf(last.recorder)
          IN  /\ last.row_num \in 2..Len(sheet)
              /\ sheet[last.row_num][1] = Str(last.user)
              /\ sheet[last.row_num][2] = DateOf(last.day)

\* the rows a message appends or changes
Touched(old, new) == {i \in 1..Len(new) : i > Len(old) \/ new[i] # old[i]}

C20_WritesLandInRow ==
    (nmsg' # nmsg /\ last'.kind = "message") =>
        /\ Len(activity') >= Len(activity) /\ Len(consumption') >= Len(consumption)
        /\ Len(language') >= Len(language)
        /\ Touched(activity, activity') \cup Touched(consumption, consumption')
              \cup Touched(language, language') \subseteq {last'.row_num}

-----------------------------------------------------------------------------
(* Store failures in the recorders *)

\* the store call a failing step stands for, and which of its occurrences
CallOf(step) ==
    CASE step = "scan"   -> [name |-> "get_all_values", nth |-> 1]
      [] step = "append" -> [name |-> "append_row", nth |-> 1]
      [] step = "read"   -> [name |-> "cell", nth |-> 1]
      [] step = "read2"  -> [name |-> "cell", nth |-> 2]
      [] step = "write"  -> [name |-> "update_cell", nth |-> 1]
      [] step = "write2" -> [name |-> "update_cell", nth |-> 2]

Occurrences(calls, name) == Cardinality({k \in 1..Len(calls) : calls[k] = name})

\* the failing call was made while the last message was handled
StoreFailed ==
    /\ last.kind = "message" /\ last.fail # "none"
    /\ Occurrences(last.calls, CallOf(last.fail).name) >= CallOf(last.fail).nth

GenericFailures ==
    { Msg("Failed to record habit", ""), Msg("Error recording habit", ""),
      Msg("Failed to create consumption record", ""), Msg("Error recording consumption", ""),
      Msg("Failed to create language record", ""),
      Msg("Error recording language activity", "") }

\* C19: if the remote store fails at any step (row scan, row append, cell
\* read, cell write) of recordActivity, recordConsumption or recordLanguage,
\* the recorder returns a failure result carrying a generic failure message,
\* never lets the exception escape to the caller, and makes no further store
\* call for that message (no retry).
C19_StoreFailureIsReported ==
    StoreFailed =>
        /\ ~last.ok /\ ~last.raised
        /\ last.msg \in GenericFailures
        /\ last.replies = <<[chat |-> last.user, body |-> last.msg]>>
        /\ last.calls[Len(last.calls)] = CallOf(last.fail).name
        /\ Occurrences(last.calls, CallOf(last.fail).name) = CallOf(last.fail).nth

\* the write of the cost cell fails after the count cell was written
C19_Witness ==
    /\ StoreFailed /\ last.fail = "write2"
    /\ last.calls = <<"get_all_values", "cell", "cell", "update_cell", "update_cell">>

-----------------------------------------------------------------------------
(* The Activity statistics of a week, over any stored table *)

\* the data rows of the Activity table that carry a user id and a week id
MatchingRows(user_id, week) ==
    {i \in 2..Len(activity) :
        /\ activity[i][ColumnOf(ACTIVITY_HEADERS, "User ID")] = Str(user_id)
        /\ activity[i][WeekColumn] = week}

\* those of them whose cell under a habit's title is the check mark
CheckedRows(user_id, week, h) ==
    {i \in MatchingRows(user_id, week) :
        activity[i][ColumnOf(ACTIVITY_HEADERS, ActivityTitle(h))] = CHECK}

\* the statistics hold the counts of the matching rows of one week
CountsOfWeek(stats, user_id, week) ==
    /\ stats.week = week
    /\ stats.days_tracked = Cardinality(MatchingRows(user_id, week))
    /\ \A h \in 1..5 : stats.habits[h] = Cardinality(CheckedRows(user_id, week, h))

\* the ordinal of the Monday on or before the current day, read off the calendar
CurrentMonday == CHOOSE m \in (now.ord - 6)..now.ord : DateOf(m) \in CalendarMondays

\* C14: for any table contents the weekly Activity statistics of a user
\* count exactly the rows whose user id and week id both match:
\* days_tracked is the number of such rows, each habit's count the number of
\* such rows whose cell of that habit equals the check mark, and rows of
\* other users or other weeks contribute nothing
C14_StatsCountMatchingRows ==
    (pin.kind = "stats" /\ pin.done) =>
        /\ ~pin.current.none
        /\ CountsOfWeek(pin.current, pin.user, DateOf(CurrentMonday))

\* statistics taken over a table that also holds a row of another user in
\* the same week, a row of another week, or a cell that is neither blank
\* nor the check mark
C14_Witness ==
    /\ pin.kind = "stats" /\ pin.done /\ Len(activity) = 3
    /\ pin.current.days_tracked = 1
    /\ pin.current.habits[2] = 1 /\ pin.current.habits[1] = 0
    /\ \E i \in MatchingRows(pin.user, pin.current.week) :
          activity[i][ColumnOf(ACTIVITY_HEADERS, "Prayer")] = <<"x">>
    /\ \E j \in 2..Len(activity) :
          /\ activity[j][1] # Str(pin.user)
          /\ activity[j][WeekColumn] = pin.current.week
          /\ activity[j][ColumnOf(ACTIVITY_HEADERS, "Prayer")] = CHECK

-----------------------------------------------------------------------------
(* The structure check at a start, and what it does to recorded rows *)

\* the step is a start of the process
StartStep == nmsg' # nmsg /\ last'.kind = "start"

\* the stored header row of a table is not the expected list of titles
HeaderDiffers(table) ==
    \/ StoredTable(table) = <<>>
    \/ StoredTable(table)[1] # ExpectedHeaders(table)

\* C17: when the structure of the tables is checked at a start, a table
\* whose stored header row differs from the expected list is cleared and
\* holds the expected header alone afterwards, and a table whose stored
\* header equals the expected list keeps every row it had
C17_Step ==
    (StartStep /\ avail'.language /\ last'.fail = "none") =>
        \A table \in Tables :
            IF HeaderDiffers(table)
            THEN StoredTable(table)' = <<ExpectedHeaders(table)>>
            ELSE StoredTable(table)' = StoredTable(table)

C17_ClearsExactlyOnDifferingHeader == [][C17_Step]_vars

\* a start has found the Consumption header renamed and cleared the counts
\* recorded before, and has left the recorded Activity row alone
C17_Witness ==
    /\ last.kind = "start" /\ last.fail = "none" /\ avail.language
    /\ consumption = <<CONSUMPTION_HEADERS>> /\ DOMAIN tot # {}
    /\ Len(activity) = 2 /\ activity[1] = ACTIVITY_HEADERS
    /\ activity[2][ColumnOf(ACTIVITY_HEADERS, "Prayer")] = CHECK

\* the columns of a table that hold check marks
CheckColumns(table) ==
    IF table = "activity"
    THEN {ColumnOf(ACTIVITY_HEADERS, ActivityTitle(h)) : h \in 1..5}
    ELSE {ColumnOf(LANGUAGE_HEADERS, t) : t \in {"Chinese (ch)", "Hebrew (he)", "Tatar (ta)"}}

\* every check mark of `old` is a non-empty cell of `new`
MarksKept(old, new, columns) ==
    \A i \in 1..Len(old) : \A c \in columns :
        (c <= Len(old[i]) /\ old[i][c] = CHECK) =>
            (i <= Len(new) /\ c <= Len(new[i]) /\ new[i][c] # <<>>)

\* a check mark of the Activity or Language table stays a non-empty cell in
\* every step, a start of the process included
C11_MarksNeverCleared ==
    [][\A table \in {"activity", "language"} :
          MarksKept(StoredTable(table), StoredTable(table)', CheckColumns(table))]_vars

\* C11: a check mark of the Activity or Language table stays a non-empty
\* cell across every message, every run of the weekly job and every start
\* that finds the table's stored header equal to the expected list; only a
\* start that finds a differing header clears it
C11_Step ==
    \A table \in {"activity", "language"} :
        ~(StartStep /\ HeaderDiffers(table)) =>
            MarksKept(StoredTable(table), StoredTable(table)', CheckColumns(table))

C11_MarksKeptUnlessHeaderDiffers == [][C11_Step]_vars

\* check marks of both tables that a later start has left in place
C11_Witness ==
    /\ last.kind = "start" /\ last.fail = "none" /\ avail.language
    /\ \E i \in 2..Len(activity) : \E c \in CheckColumns("activity") : activity[i][c] = CHECK
    /\ \E i \in 2..Len(language) : \E c \in CheckColumns("language") : language[i][c] = CHECK

-----------------------------------------------------------------------------
(* The weekly consumption sums *)

\* what the successful recordings under the keys `keys` add up to
RECURSIVE Recorded_(_, _)
Recorded_(keys, field) ==
    IF keys = {} THEN 0
    ELSE LET k == CHOOSE x \in keys : TRUE
         IN  (IF field = "count" THEN tot[k].count ELSE tot[k].cost)
             + Recorded_(keys \ {k}, field)

\* the recordings of a user and a type on the days of the week of `day`
KeysOfWeek(user_id, day, c) ==
    {k \in DOMAIN tot : k[1] = user_id /\ k[3] = c /\ MondayOf(k[2]) = MondayOf(day)}

\* the statistics have just been read: nothing was recorded and no midnight
\* passed since
JustRead == pin.kind = "sums" /\ pin.at = nmsg /\ pin.day = now.ord

-----------------------------------------------------------------------------
(* Two recordings of one user, one day and one type, interleaved *)

\* both operations have returned success
BothDone == pin.kind = "race" /\ \A p \in Procs : pin.procs[p].pc = "done" /\ pin.procs[p].ok

\* the count shown by the first row of the user and the day in a table
ShownIn(sheet) ==
    LET rows == RowsOf(sheet, pin.user, now.ord)
    IN  IF rows = {} THEN 0
        ELSE CountShown(sheet[CHOOSE i \in rows : \A j \in rows : i <= j], "x")

\* what the two operations were to add
Increments == pin.procs[1].result.count + pin.procs[2].result.count

\* C18: the recorders do no serialization of their own.  When two
\* recordings of the same user, day and type have both returned success,
\* the stored count is the count before plus the two increments if they
\* ran one at a time (more generally, unless both read the count cell
\* before either wrote it), and it is smaller, an update being lost, if
\* both read the count cell before either wrote it
C18_LostUpdateOnlyWhenInterleaved ==
    BothDone =>
        /\ ~pin.overlapped => ~pin.both_read
        /\ ~pin.both_read => ShownIn(consumption) = ShownIn(pin.stored) + Increments
        /\ pin.both_read => ShownIn(consumption) < ShownIn(pin.stored) + Increments

\* both operations report success after both read the count cell before
\* either wrote it, and the stored count is short of the two increments
C18_Witness ==
    /\ BothDone /\ pin.both_read
    /\ ShownIn(pin.stored) = 2 /\ Increments = 3
    /\ ShownIn(consumption) < 5

-----------------------------------------------------------------------------
(* Days tracked, and what a failed recording leaves in the tables *)

\* the dates of the week `week` on which the Activity table shows a check
\* mark of the user: a mark is written by a successful recording only
DaysRecorded(user_id, week) ==
    {activity[i][ColumnOf(ACTIVITY_HEADERS, "Date")] : i \in
        {j \in MatchingRows(user_id, week) :
            \E h \in 1..5 : activity[j][ColumnOf(ACTIVITY_HEADERS, ActivityTitle(h))] = CHECK}}

\* C21: in every state, also after recordings that failed at a store call,
\* days_tracked of a user's weekly statistics is the number of distinct days
\* of the week on which a habit of that user was recorded, and no habit
\* count exceeds days_tracked
C21_DaysTrackedAreDaysRecorded ==
    \A u \in Users :
        avail.activity =>
            /\ ~get_weekly_stats(activity, avail.activity, u, now, FALSE).none
            /\ get_weekly_stats(activity, avail.activity, u, now, FALSE).days_tracked
                  = Cardinality(DaysRecorded(u, MondayOf(now.ord)))
            /\ \A h \in 1..5 :
                  get_weekly_stats(activity, avail.activity, u, now, FALSE).habits[h]
                     <= get_weekly_stats(activity, avail.activity, u, now, FALSE).days_tracked

\* C22: a consumption recording that reports failure leaves every count
\* and cost cell as it was before the call (a row appended on the way
\* having them blank); the count is never written without the cost when the
\* parsed cost is greater than 0
C22_Step ==
    (nmsg' # nmsg /\ last'.kind = "message" /\ last'.recorder = "consumption"
       /\ ~last'.ok) =>
        \A i \in 2..Len(consumption') : \A c \in {"x", "y", "z"} :
            /\ consumption'[i][ColumnOf(CONSUMPTION_HEADERS, CountTitle(c))]
                  = CellBefore(i, ColumnOf(CONSUMPTION_HEADERS, CountTitle(c)))
            /\ consumption'[i][ColumnOf(CONSUMPTION_HEADERS, CostTitle(c))]
                  = CellBefore(i, ColumnOf(CONSUMPTION_HEADERS, CostTitle(c)))

C22_FailureLeavesCellsAsTheyWere == [][C22_Step]_vars

====
